---- MODULE Spec2Model ----
(***************************************************************************)
(* Model of lib/eslint/eslint.js: the options validator processOptions,    *)
(* the plugin id normaliser normalizePluginIds and the ESLint constructor, *)
(* which validates the raw options, constructs the wrapped CLIEngine and   *)
(* registers the plugin definitions given inline.                          *)
(*                                                                         *)
(* JavaScript values are tagged records [t, v]; t is the kind of value     *)
(* ("undefined", "null", "boolean", "string", "array", "object",           *)
(* "function") and v its payload.  An object carries the two properties    *)
(* the code reads, id and definition, and a name that tells objects apart. *)
(***************************************************************************)
EXTENDS Integers, Sequences, FiniteSets, TLC

VARIABLES options, pc, engineOptions, cliEngine, calls, registered, i,
          thrown, raised, handle, second

vars == <<options, pc, engineOptions, cliEngine, calls, registered, i,
          thrown, raised, handle, second>>

----------------------------------------------------------------------------
(* Bounds of the model *)

\* number of keys (recognized or not) a raw options record supplies
MaxSupplied == 2
\* length of a supplied plugins array
MaxPlugins == 2

----------------------------------------------------------------------------
(* JavaScript values *)

Undefined == [t |-> "undefined", v |-> <<>>]
Null == [t |-> "null", v |-> <<>>]
Bool(b) == [t |-> "boolean", v |-> b]
Str(s) == [t |-> "string", v |-> s]
Arr(s) == [t |-> "array", v |-> s]
Fn == [t |-> "function", v |-> <<>>]
Obj(n, id, def) == [t |-> "object", v |-> [name |-> n, id |-> id, definition |-> def]]

\* typeof x
TypeOf(x) ==
    CASE x.t = "null" -> "object"
      [] x.t = "array" -> "object"
      [] OTHER -> x.t

\* Array.isArray(x)
IsArray(x) == x.t = "array"

\* x.id and x.definition, for an x that is neither null nor undefined
\* (reading a property of null or undefined throws a TypeError)
PropId(x) == IF x.t = "object" THEN x.v.id ELSE Undefined
PropDefinition(x) == IF x.t = "object" THEN x.v.definition ELSE Undefined

----------------------------------------------------------------------------
(* Errors *)

NoError == [type |-> "none", message |-> <<>>]
\* new Error(message); the message is kept as the sequence of its parts
Error(parts) == [type |-> "Error", message |-> parts]
TypeError(parts) == [type |-> "TypeError", message |-> parts]
\* failures raised by the engine (external collaborator)
EngineInitError == [type |-> "EngineError", message |-> <<"CLIEngine">>]
AddPluginError(k) == [type |-> "EngineError", message |-> <<"addPlugin", k>>]

----------------------------------------------------------------------------
(* The recognized options, in the order of the destructuring pattern *)

FieldOrder ==
    << "allowInlineConfig", "baseConfig", "cache", "cacheLocation",
       "configFile", "cwd", "envs", "extensions", "fix", "fixTypes",
       "globals", "globInputPaths", "ignore", "ignorePath", "ignorePattern",
       "parser", "parserOptions", "plugins", "reportUnusedDisableDirectives",
       "resolvePluginsRelativeTo", "rulePaths", "rules", "useEslintrc" >>

Fields == {FieldOrder[k] : k \in 1..Len(FieldOrder)}

\* keys a caller may pass that the pattern does not name
UnknownKeys == {"cacheFile", "foo"}

\* process.cwd()
ProcessCwd == Str("/cwd")

\* the default of each destructured option; resolvePluginsRelativeTo
\* defaults to the local cwd
Default(f, cwd) ==
    CASE f = "allowInlineConfig" -> Bool(TRUE)
      [] f = "baseConfig" -> Null
      [] f = "cache" -> Bool(FALSE)
      [] f = "cacheLocation" -> Str(".eslintcache")
      [] f = "configFile" -> Null
      [] f = "cwd" -> ProcessCwd
      [] f = "envs" -> Arr(<<>>)
      [] f = "extensions" -> Null
      [] f = "fix" -> Bool(FALSE)
      [] f = "fixTypes" -> Arr(<<Str("problem"), Str("suggestion"), Str("layout")>>)
      [] f = "globals" -> Arr(<<>>)
      [] f = "globInputPaths" -> Bool(TRUE)
      [] f = "ignore" -> Bool(TRUE)
      [] f = "ignorePath" -> Null
      [] f = "ignorePattern" -> Arr(<<>>)
      [] f = "parser" -> Str("espree")
      [] f = "parserOptions" -> Null
      [] f = "plugins" -> Arr(<<>>)
      [] f = "reportUnusedDisableDirectives" -> Bool(FALSE)
      [] f = "resolvePluginsRelativeTo" -> cwd
      [] f = "rulePaths" -> Arr(<<>>)
      [] f = "rules" -> Null
      [] f = "useEslintrc" -> Bool(TRUE)

\* a raw options record: known[f] is the value of the recognized key f
\* (Undefined when the key is absent), unknown the other keys in the order
\* they were inserted
Destructure(raw) ==
    LET cwd == IF raw.known["cwd"] = Undefined THEN ProcessCwd ELSE raw.known["cwd"]
    IN [f \in Fields |->
           IF raw.known[f] = Undefined THEN Default(f, cwd) ELSE raw.known[f]]

----------------------------------------------------------------------------
(* processOptions *)

\* the type checks, in source order: the option tested, whether the check
\* throws for the destructured options o, and the parts of its message
Checks(o) ==
    << [field |-> "allowInlineConfig",
        bad |-> TypeOf(o["allowInlineConfig"]) # "boolean",
        message |-> <<"allowInlineConfig", " must be a boolean.">>],
       [field |-> "baseConfig",
        bad |-> TypeOf(o["baseConfig"]) # "object",
        message |-> <<"baseConfig", " must be an object or null.">>],
       [field |-> "cache",
        bad |-> TypeOf(o["cache"]) # "boolean",
        message |-> <<"cache", " must be a boolean.">>],
       [field |-> "cacheLocation",
        bad |-> TypeOf(o["cacheLocation"]) # "string",
        message |-> <<"cacheLocation", " must be a string.">>],
       [field |-> "configFile",
        bad |-> TypeOf(o["configFile"]) # "string" /\ o["cacheLocation"] # Null,
        message |-> <<"configFile", " must be a string or null.">>],
       [field |-> "cwd",
        bad |-> TypeOf(o["cwd"]) # "string",
        message |-> <<"cwd", " must be a string.">>],
       [field |-> "envs",
        bad |-> ~IsArray(o["envs"]),
        message |-> <<"envs", " must be an array.">>],
       [field |-> "extensions",
        bad |-> ~IsArray(o["extensions"]) /\ o["extensions"] # Null,
        message |-> <<"extensions", " must be an array or null.">>],
       [field |-> "fix",
        bad |-> TypeOf(o["fix"]) # "boolean",
        message |-> <<"fix", " must be a boolean.">>],
       [field |-> "fixTypes",
        bad |-> ~IsArray(o["fixTypes"]),
        message |-> <<"fixTypes", " must be an array.">>],
       [field |-> "globals",
        bad |-> ~IsArray(o["globals"]),
        message |-> <<"globals", " must be an array.">>],
       [field |-> "globInputPaths",
        bad |-> TypeOf(o["globInputPaths"]) # "boolean",
        message |-> <<"globInputPaths", " must be a boolean.">>],
       [field |-> "ignore",
        bad |-> TypeOf(o["ignore"]) # "boolean",
        message |-> <<"globInputPaths", " must be a boolean.">>],
       [field |-> "ignorePath",
        bad |-> TypeOf(o["ignorePath"]) # "string" /\ o["ignorePath"] # Null,
        message |-> <<"ignorePath", " must be a string or null.">>],
       [field |-> "ignorePattern",
        bad |-> TypeOf(o["ignorePattern"]) # "string" /\ ~IsArray(o["ignorePattern"]),
        message |-> <<"ignorePattern", " must be a string or an array of strings.">>],
       [field |-> "parser",
        bad |-> TypeOf(o["parser"]) # "string",
        message |-> <<"parser", " must be a string.">>],
       [field |-> "parserOptions",
        bad |-> TypeOf(o["parserOptions"]) # "object",
        message |-> <<"parserOptions", " must be an object or null.">>],
       [field |-> "plugins",
        bad |-> ~IsArray(o["plugins"]),
        message |-> <<"plugins", " must be an array.">>],
       [field |-> "reportUnusedDisableDirectives",
        bad |-> TypeOf(o["reportUnusedDisableDirectives"]) # "boolean",
        message |-> <<"reportUnusedDisableDirectives", " must be a boolean.">>],
       [field |-> "resolvePluginsRelativeTo",
        bad |-> TypeOf(o["resolvePluginsRelativeTo"]) # "string",
        message |-> <<"resolvePluginsRelativeTo", " must be a string.">>],
       [field |-> "rulePaths",
        bad |-> ~IsArray(o["rulePaths"]),
        message |-> <<"plugins", " must be an array.">>],
       [field |-> "rules",
        bad |-> TypeOf(o["rules"]) # "object",
        message |-> <<"rules", " must be an object or null.">>],
       [field |-> "useEslintrc",
        bad |-> TypeOf(o["useEslintrc"]) # "boolean",
        message |-> <<"useElintrc", " must be a boolean.">>] >>

\* the first check of the sequence c that throws, 0 when none does: the
\* checks are consecutive if statements, each of which throws
FirstFailing(c) ==
    LET bad == {k \in 1..Len(c) : c[k].bad}
    IN IF bad = {} THEN 0 ELSE CHOOSE k \in bad : \A j \in bad : k <= j

\* the outcome of a call: a returned value or a thrown error
Returned(x) == [ok |-> TRUE, value |-> x, error |-> NoError]
Threw(e) == [ok |-> FALSE, value |-> Undefined, error |-> e]

\* normalizePluginIds without the map: the elements are returned as given
normalizePluginIdsUnmapped(plugins) == Returned(plugins)

\* normalizePluginIds without the typeof test: p => p.id for every element
normalizePluginIdsAlwaysId(plugins) ==
    Returned(Arr([k \in 1..Len(plugins.v) |-> PropId(plugins.v[k])]))

\* plugins.map(p => (typeof p === "string" ? p : p.id)); reading p.id of a
\* null or undefined element throws
normalizePluginIds(plugins) ==
    LET nullish == {k \in 1..Len(plugins.v) : plugins.v[k].t \in {"null", "undefined"}}
    IN IF nullish # {}
       THEN Threw(TypeError(<<"Cannot read property 'id' of ",
                              plugins.v[CHOOSE k \in nullish : \A j \in nullish : k <= j].t>>))
       ELSE Returned(Arr([k \in 1..Len(plugins.v) |->
                             IF TypeOf(plugins.v[k]) = "string"
                             THEN plugins.v[k]
                             ELSE PropId(plugins.v[k])]))

\* The rest object unknownOptions is a plain object: it has no includes
\* method unless the caller passed a key of that name, which UnknownKeys
\* leaves out, so the call in the message template throws before the
\* message is built.
unknownOptionsCheck(unknown) ==
    IF Len(unknown) >= 1
    THEN Threw(TypeError(<<"unknownOptions.includes", " is not a function">>))
    ELSE Returned(Undefined)

processOptions(raw) ==
    LET o == Destructure(raw)
        u == unknownOptionsCheck(raw.unknown)
        c == Checks(o)
        k == FirstFailing(c)
        ids == normalizePluginIds(o["plugins"])
    IN IF ~u.ok THEN u
       ELSE IF k # 0 THEN Threw(Error(c[k].message))
       ELSE IF ~ids.ok THEN ids
       ELSE Returned([o EXCEPT !["plugins"] = ids.value])

----------------------------------------------------------------------------
(* The raw options records a caller passes *)

\* the values a caller supplies for a recognized option, one of each kind
DefinitionA == Obj("definitionA", Undefined, Undefined)
DefinitionB == Obj("definitionB", Undefined, Undefined)
Values == {Bool(FALSE), Str("s"), Null, Arr(<<Str("x")>>),
           Obj("o", Undefined, Undefined), Fn}

\* the elements of a supplied plugins array: an id, an id with a definition,
\* an id without a definition, and a definition without an id
PluginEntries ==
    {Str("foo"),
     Obj("bar", Str("bar"), DefinitionA),
     Obj("baz", Str("baz"), Undefined),
     Obj("anonymous", Undefined, DefinitionB)}

RECURSIVE SeqsUpTo(_, _)
SeqsUpTo(S, n) ==
    IF n = 0 THEN {<<>>}
    ELSE LET shorter == SeqsUpTo(S, n - 1)
         IN shorter \cup {Append(q, x) : q \in shorter, x \in S}

RECURSIVE SubsetsUpTo(_, _)
SubsetsUpTo(S, n) ==
    IF n = 0 THEN {{}}
    ELSE LET smaller == SubsetsUpTo(S, n - 1)
         IN smaller \cup {T \cup {x} : T \in smaller, x \in S}

PluginsValues == (Values \ {Arr(<<Str("x")>>)})
                    \cup {Arr(q) : q \in SeqsUpTo(PluginEntries, MaxPlugins)}

\* the unknown keys of a record, in each insertion order
UnknownSeqs ==
    {q \in SeqsUpTo(UnknownKeys, Cardinality(UnknownKeys)) :
        \A a, b \in 1..Len(q) : a # b => q[a] # q[b]}

\* the record that supplies the recognized keys K with the values g, the
\* plugins key with p (Undefined: absent), and the unknown keys u
RawRecord(K, g, p, u) ==
    [known |-> [f \in Fields |->
                  IF f = "plugins" THEN p
                  ELSE IF f \in K THEN g[f] ELSE Undefined],
     unknown |-> u]

\* options is a record that supplies at most MaxSupplied keys
IsRawOptions(r) ==
    \E u \in UnknownSeqs :
      /\ Len(u) <= MaxSupplied
      /\ \/ \E K \in SubsetsUpTo(Fields \ {"plugins"}, MaxSupplied - Len(u)) :
              \E g \in [K -> Values] : r = RawRecord(K, g, Undefined, u)
         \/ /\ Len(u) < MaxSupplied
            /\ \E K \in SubsetsUpTo(Fields \ {"plugins"}, MaxSupplied - Len(u) - 1) :
                 \E g \in [K -> Values] :
                   \E p \in PluginsValues : r = RawRecord(K, g, p, u)

----------------------------------------------------------------------------
(* The ESLint constructor *)

NoOptions == [f \in Fields |-> Undefined]
NoEngine == [constructed |-> FALSE, options |-> NoOptions]
NoHandle == [returned |-> FALSE, engine |-> NoEngine]
NotRun == [ok |-> FALSE, value |-> Undefined, error |-> NoError]

Init ==
    /\ IsRawOptions(options)
    /\ pc = "processOptions"
    /\ engineOptions = NoOptions
    /\ cliEngine = NoEngine
    /\ calls = <<>>
    /\ registered = <<>>
    /\ i = 0
    /\ thrown = NoError
    /\ raised = NoError
    /\ handle = NoHandle
    /\ second = NotRun

\* ProcessOptionsCall with the thrown error swallowed: the engine is handed
\* the destructured options whatever the checks say
ProcessOptionsCallUnchecked ==
    /\ pc = "processOptions"
    /\ engineOptions' = Destructure(options)
    /\ pc' = "newCLIEngine"
    /\ UNCHANGED <<options, cliEngine, calls, registered, i, thrown, raised,
                   handle, second>>

\* processOptions(Object.assign({}, options)): the argument of new CLIEngine
\* is evaluated first, and a throw leaves the constructor
ProcessOptionsCall ==
    /\ pc = "processOptions"
    /\ LET r == processOptions(options)
       IN IF r.ok
          THEN /\ engineOptions' = r.value
               /\ pc' = "newCLIEngine"
               /\ UNCHANGED thrown
          ELSE /\ thrown' = r.error
               /\ pc' = "thrown"
               /\ UNCHANGED engineOptions
    /\ UNCHANGED <<options, cliEngine, calls, registered, i, raised, handle, second>>

\* this._cliEngine = new CLIEngine(...): the engine either initializes with
\* the processed options or raises, and nothing catches what it raises
NewCLIEngine ==
    /\ pc = "newCLIEngine"
    /\ \E fails \in BOOLEAN :
         IF fails
         THEN /\ raised' = EngineInitError
              /\ thrown' = EngineInitError
              /\ pc' = "thrown"
              /\ UNCHANGED cliEngine
         ELSE /\ cliEngine' = [constructed |-> TRUE, options |-> engineOptions]
              /\ pc' = "pluginsLength"
              /\ UNCHANGED <<raised, thrown>>
    /\ UNCHANGED <<options, engineOptions, calls, registered, i, handle, second>>

\* if (options.plugins.length): reads the raw options, in which an absent
\* plugins key is undefined; past validation it is absent or an array
PluginsLength ==
    /\ pc = "pluginsLength"
    /\ LET plugins == options.known["plugins"]
       IN IF plugins.t \in {"undefined", "null"}
          THEN /\ thrown' = TypeError(<<"Cannot read property 'length' of ", plugins.t>>)
               /\ pc' = "thrown"
               /\ UNCHANGED i
          ELSE IF IsArray(plugins) /\ Len(plugins.v) > 0
          THEN /\ pc' = "forOf"
               /\ i' = 1
               /\ UNCHANGED thrown
          ELSE /\ pc' = "return"
               /\ UNCHANGED <<i, thrown>>
    /\ UNCHANGED <<options, engineOptions, cliEngine, calls, registered, raised,
                   handle, second>>

\* ForOfPlugin with the addPlugin call wrapped in a try/catch that goes on
\* to the next element
ForOfPluginCatching ==
    /\ pc = "forOf"
    /\ LET plugins == options.known["plugins"].v
       IN IF i > Len(plugins)
          THEN /\ pc' = "return"
               /\ UNCHANGED <<i, calls, registered, raised>>
          ELSE LET plugin == plugins[i]
                   call == [id |-> PropId(plugin), definition |-> PropDefinition(plugin)]
               IN IF TypeOf(plugin) = "object" /\ plugin # Null
                  THEN \E fails \in BOOLEAN :
                         /\ calls' = Append(calls, call)
                         /\ i' = i + 1
                         /\ UNCHANGED pc
                         /\ IF fails
                            THEN /\ raised' = AddPluginError(i)
                                 /\ UNCHANGED registered
                            ELSE /\ registered' = Append(registered, call)
                                 /\ UNCHANGED raised
                  ELSE /\ i' = i + 1
                       /\ UNCHANGED <<pc, calls, registered, raised>>
    /\ UNCHANGED <<options, engineOptions, cliEngine, thrown, handle, second>>

\* one iteration of for (const plugin of options.plugins): addPlugin is
\* called for an element that is a non-null object; the engine registers
\* the pair or raises, and nothing catches what it raises
ForOfPlugin ==
    /\ pc = "forOf"
    /\ LET plugins == options.known["plugins"].v
       IN IF i > Len(plugins)
          THEN /\ pc' = "return"
               /\ UNCHANGED <<i, calls, registered, raised, thrown>>
          ELSE LET plugin == plugins[i]
                   call == [id |-> PropId(plugin), definition |-> PropDefinition(plugin)]
               IN IF TypeOf(plugin) = "object" /\ plugin # Null
                  THEN \E fails \in BOOLEAN :
                         /\ calls' = Append(calls, call)
                         /\ IF fails
                            THEN /\ raised' = AddPluginError(i)
                                 /\ thrown' = AddPluginError(i)
                                 /\ pc' = "thrown"
                                 /\ UNCHANGED <<i, registered>>
                            ELSE /\ registered' = Append(registered, call)
                                 /\ i' = i + 1
                                 /\ UNCHANGED <<pc, raised, thrown>>
                  ELSE /\ i' = i + 1
                       /\ UNCHANGED <<pc, calls, registered, raised, thrown>>
    /\ UNCHANGED <<options, engineOptions, cliEngine, handle, second>>

\* the constructor returns: the caller holds the instance and its engine
Return ==
    /\ pc = "return"
    /\ handle' = [returned |-> TRUE, engine |-> cliEngine]
    /\ pc' = "returned"
    /\ UNCHANGED <<options, engineOptions, cliEngine, calls, registered, i,
                   thrown, raised, second>>

Next ==
    \/ ProcessOptionsCall
    \/ NewCLIEngine
    \/ PluginsLength
    \/ ForOfPlugin
    \/ Return

Spec == Init /\ [][Next]_vars

----------------------------------------------------------------------------
(* A second pass of processOptions over its own result *)

\* the record processOptions returns has exactly the recognized keys
AsRaw(record) == [known |-> record, unknown |-> <<>>]

SecondPass ==
    /\ pc = "newCLIEngine"
    /\ second' = processOptions(AsRaw(engineOptions))
    /\ pc' = "revalidated"
    /\ UNCHANGED <<options, engineOptions, cliEngine, calls, registered, i,
                   thrown, raised, handle>>

NextRevalidate ==
    \/ ProcessOptionsCall
    \/ SecondPass

SpecRevalidate == Init /\ [][NextRevalidate]_vars

----------------------------------------------------------------------------
(* Properties *)

\* the elements of the raw plugins array (none when the key is absent or
\* its value is no array)
RawPlugins ==
    IF IsArray(options.known["plugins"]) THEN options.known["plugins"].v ELSE <<>>

Supplied(f) == options.known[f] # Undefined

\* the message the unknown-option error is specified to carry: the rename
\* hint when cacheFile is among the keys, then the keys joined by ", "
RECURSIVE Joined(_)
Joined(u) ==
    IF Len(u) = 0 THEN <<>>
    ELSE IF Len(u) = 1 THEN u
    ELSE <<Head(u), ", ">> \o Joined(Tail(u))

UnknownOptionsMessage(u) ==
    (IF \E k \in 1..Len(u) : u[k] = "cacheFile"
     THEN <<"cacheFile has been deprecated. Please use the cacheLocation option instead. ">>
     ELSE <<>>)
    \o <<"Unknown options given: ">> \o Joined(u) \o <<".">>

\* the declared type of each option
BooleanFields == {"allowInlineConfig", "cache", "fix", "globInputPaths", "ignore",
                  "reportUnusedDisableDirectives", "useEslintrc"}
StringFields == {"cacheLocation", "cwd", "parser", "resolvePluginsRelativeTo"}
StringOrNullFields == {"configFile", "ignorePath"}
ArrayFields == {"envs", "fixTypes", "globals", "plugins", "rulePaths"}
ObjectOrNullFields == {"baseConfig", "parserOptions", "rules"}

\* the supplied value x is not of the type declared for the option f
WrongType(f, x) ==
    /\ x # Undefined
    /\ CASE f \in BooleanFields -> x.t # "boolean"
         [] f \in StringFields -> x.t # "string"
         [] f \in StringOrNullFields -> x.t \notin {"string", "null"}
         [] f \in ArrayFields -> x.t # "array"
         [] f = "extensions" -> x.t \notin {"array", "null"}
         [] f = "ignorePattern" -> x.t \notin {"string", "array"}
         [] f \in ObjectOrNullFields -> x.t \notin {"object", "array", "null"}

\* the options whose check throws for the raw record
ViolatedFields ==
    LET c == Checks(Destructure(options))
    IN {c[k].field : k \in {j \in 1..Len(c) : c[j].bad}}

\* the violated option that comes first in the enumeration order
EarliestViolated ==
    LET ks == {k \in 1..Len(FieldOrder) : FieldOrder[k] \in ViolatedFields}
    IN FieldOrder[CHOOSE k \in ks : \A j \in ks : k <= j]

\* C1: if processOptions fails for the raw record, the engine is never
\* constructed, no addPlugin call is issued and no instance is returned;
\* stated by contraposition: once the constructor is past the validation
\* step, or the engine or a registration exists, processOptions accepted
\* the record.
ValidationFailurePreventsEngine ==
    ( \/ pc \notin {"processOptions", "thrown"}
      \/ cliEngine # NoEngine
      \/ calls # <<>>
      \/ registered # <<>>
      \/ handle # NoHandle ) =>
        processOptions(options).ok

\* a record with an inline plugin definition was rejected by validation
ValidationFailureWitness ==
    /\ pc = "thrown"
    /\ ~processOptions(options).ok
    /\ \E k \in 1..Len(RawPlugins) : RawPlugins[k].t = "object"
    /\ cliEngine = NoEngine

\* C2: a record with unknown keys fails with the unknown-option error whose
\* message lists those keys, comma-joined in insertion order, after the
\* cacheLocation hint exactly when cacheFile is among them.
UnknownOptionsReported ==
    (options.unknown # <<>> /\ pc # "processOptions") =>
        /\ pc = "thrown"
        /\ thrown = Error(UnknownOptionsMessage(options.unknown))

\* C3: a wrongly typed value for one recognized option, with every other
\* check passing, fails with an Error whose message names that option.
TypeMismatchNamesField ==
    \A f \in Fields :
        ( /\ pc # "processOptions"
          /\ options.unknown = <<>>
          /\ WrongType(f, options.known[f])
          /\ ViolatedFields \subseteq {f} ) =>
            /\ pc = "thrown"
            /\ thrown.type = "Error"
            /\ thrown.message[1] = f

\* C4: the empty raw record is accepted and every option of the result
\* holds its default.
EmptyRecordGetsDefaults ==
    ( /\ pc # "processOptions"
      /\ options.unknown = <<>>
      /\ \A f \in Fields : ~Supplied(f) ) =>
        /\ processOptions(options).ok
        /\ engineOptions = [f \in Fields |-> Default(f, ProcessCwd)]
        /\ engineOptions["fixTypes"] =
               Arr(<<Str("problem"), Str("suggestion"), Str("layout")>>)
        /\ engineOptions["parser"] = Str("espree")
        /\ engineOptions["configFile"] = Null
        /\ engineOptions["resolvePluginsRelativeTo"] = ProcessCwd

\* an element of the documented shapes: an id, or an id with a definition
IsIdOrPair(e) ==
    \/ e.t = "string"
    \/ e.t = "object" /\ e.v.id.t = "string" /\ e.v.definition # Undefined

\* C5: for an accepted record whose plugins are ids and {id, definition}
\* pairs, the engine receives the ids, as many and in the same order, and
\* every other option as supplied or at its default.
PluginsNormalizedToIds ==
    ( /\ cliEngine.constructed
      /\ IsArray(options.known["plugins"])
      /\ \A k \in 1..Len(RawPlugins) : IsIdOrPair(RawPlugins[k]) ) =>
        LET out == cliEngine.options["plugins"]
            cwd == IF Supplied("cwd") THEN options.known["cwd"] ELSE ProcessCwd
        IN /\ out.t = "array"
           /\ Len(out.v) = Len(RawPlugins)
           /\ \A k \in 1..Len(RawPlugins) :
                 out.v[k] = IF RawPlugins[k].t = "string"
                            THEN RawPlugins[k]
                            ELSE RawPlugins[k].v.id
           /\ \A f \in Fields \ {"plugins"} :
                 cliEngine.options[f] =
                     IF Supplied(f) THEN options.known[f] ELSE Default(f, cwd)

\* the record with plugins ["foo", {id: "bar", definition}] reached the engine
PluginsNormalizedWitness ==
    /\ cliEngine.constructed
    /\ RawPlugins = <<Str("foo"), Obj("bar", Str("bar"), DefinitionA)>>
    /\ cliEngine.options["plugins"] = Arr(<<Str("foo"), Str("bar")>>)

\* the registrations specified for a plugins array: one per object element
\* that carries a definition, in order
RECURSIVE SpecifiedRegistrations(_)
SpecifiedRegistrations(entries) ==
    IF entries = <<>> THEN <<>>
    ELSE LET e == Head(entries)
         IN (IF e.t = "object" /\ e.v.definition # Undefined
             THEN <<[id |-> e.v.id, definition |-> e.v.definition]>>
             ELSE <<>>) \o SpecifiedRegistrations(Tail(entries))

\* C6: a successful construction issues exactly the registrations of the
\* object elements that carry a definition, in input order, each after the
\* engine is initialized.
RegistrationsOnlyForDefinitions ==
    /\ calls # <<>> => cliEngine.constructed
    /\ pc = "returned" => calls = SpecifiedRegistrations(RawPlugins)

\* C7: with plugins empty or omitted and a record the validator accepts,
\* construction returns an instance and issues no registration, unless the
\* engine itself raises.
EmptyPluginsConstructs ==
    ( /\ options.known["plugins"] \in {Undefined, Arr(<<>>)}
      /\ processOptions(options).ok
      /\ raised = NoError
      /\ pc \in {"thrown", "returned"} ) =>
        /\ pc = "returned"
        /\ handle.returned
        /\ calls = <<>>

\* C8 as stated: a second pass over the result of an accepted record
\* succeeds and returns that same result.
SecondPassIdentical ==
    pc = "revalidated" => (second.ok /\ second.value = engineOptions)

\* an element that yields a string id
HasStringId(e) ==
    \/ e.t = "string"
    \/ e.t = "object" /\ e.v.id.t = "string"

\* C8 amended: a second pass over the result of an accepted record whose
\* plugins elements are strings or objects with a string id succeeds and
\* returns that same result.
SecondPassIdenticalForStringIds ==
    ( /\ pc = "revalidated"
      /\ \A k \in 1..Len(RawPlugins) : HasStringId(RawPlugins[k]) ) =>
        (second.ok /\ second.value = engineOptions)

\* a record with a string and an object element went through both passes
SecondPassWitness ==
    /\ pc = "revalidated"
    /\ RawPlugins = <<Str("foo"), Obj("bar", Str("bar"), DefinitionA)>>
    /\ second.ok
    /\ second.value["plugins"] = Arr(<<Str("foo"), Str("bar")>>)

\* the recognized options supplied with a value of the wrong type
WronglyTyped == {f \in Fields : WrongType(f, options.known[f])}

\* C9: a record that violates several rules fails with one error, the
\* unknown-option error when it has unknown keys, and otherwise the error
\* naming the earliest violated option of the enumeration order.
FirstViolationReported ==
    ( /\ pc # "processOptions"
      /\ Cardinality(WronglyTyped) + (IF options.unknown # <<>> THEN 1 ELSE 0) >= 2 ) =>
        /\ pc = "thrown"
        /\ IF options.unknown # <<>>
           THEN /\ thrown.type = "Error"
                /\ thrown.message = UnknownOptionsMessage(options.unknown)
           ELSE /\ thrown.type = "Error"
                /\ thrown.message[1] = EarliestViolated

\* the number of the first k elements for which addPlugin is called
RECURSIVE ObjectCount(_, _)
ObjectCount(entries, k) ==
    IF k = 0 THEN 0
    ELSE ObjectCount(entries, k - 1) + (IF entries[k].t = "object" THEN 1 ELSE 0)

\* C10: when a registration call raises, the constructor throws what the
\* engine raised, the engine and the earlier registrations stay as they
\* were, no call is issued for a later element and no instance is returned.
RegistrationFailurePropagates ==
    (raised # NoError /\ raised # EngineInitError) =>
        /\ pc = "thrown"
        /\ thrown = raised
        /\ raised = AddPluginError(i)
        /\ cliEngine = [constructed |-> TRUE, options |-> engineOptions]
        /\ Len(calls) = ObjectCount(RawPlugins, i)
        /\ registered = SubSeq(calls, 1, Len(calls) - 1)
        /\ calls[Len(calls)] = [id |-> PropId(RawPlugins[i]),
                                definition |-> PropDefinition(RawPlugins[i])]
        /\ handle = NoHandle

\* the second registration raised after the first succeeded
RegistrationFailureWitness ==
    /\ pc = "thrown"
    /\ raised = AddPluginError(2)
    /\ Len(registered) = 1
    /\ Len(calls) = 2
    /\ cliEngine.constructed

====
